---- MODULE Spec2Model ----
(***************************************************************************)
(* The request/response mapping of cactive_hypixel_api.                    *)
(*                                                                         *)
(* Two revisions of the client live in the crate: the generic one of       *)
(* src/lib.rs (request_data + map_errors + the From conversions) and the   *)
(* hand-written one of src/main.rs (every operation carries its own GET    *)
(* and its own match).  A call is an async function: it runs to its first  *)
(* await (the GET), resumes when the GET completes, awaits the body's      *)
(* decode, and resumes once more to match on the decoded envelope.         *)
(*                                                                         *)
(* A Rust String is a sequence of text fragments; the characters a URL     *)
(* gives a meaning to ("?", "&", "=") are fragments of their own, so that  *)
(* format! is the concatenation it is.  A response body is a JSON          *)
(* document: a field of it is absent, null or a value.                     *)
(***************************************************************************)
EXTENDS Integers, Sequences, FiniteSets, TLC

VARIABLES
    client,     \* the Client: [key, cache]
    ctor,       \* the arguments Client::new was called with
    pc,         \* per caller: idle | get | json | returned | panicked
    rev,        \* per caller: the revision its call runs ("lib" | "main")
    op,         \* per caller: the operation of its call
    arg,        \* per caller: the operation's parameter, until the GET returns
    url,        \* per caller: the URL handed to reqwest::get, while the GET is out
    response,   \* per caller: what reqwest::get returned
    decoded,    \* per caller: what request.json::<APIData<T>>() returned
    result,     \* per caller: what the call returned to its caller
    gets,       \* per caller: GETs the call has issued
    decodes     \* per caller: decode attempts the call has made

vars == <<client, ctor, pc, rev, op, arg, url, response, decoded, result, gets, decodes>>

----------------------------------------------------------------------------
(* Bounds and input sets *)

MaxErrors == 2
MaxItems == 2
U16Max == 65535

Callers == {"c1", "c2"}
SeqCallers == {"c1"}

Keys == {<<"K">>, <<"key">>}
Nicknames == {<<"angry_and_free">>, <<"k", "&", "cache", "=", "true">>}
Uuids == {<<"eea2d4fd">>, <<"u", "=", "1">>}
Filters == {<<"all">>, <<"online">>, <<"offline">>}
Ids == {<<"C256D602">>, <<"x", "&", "y">>}
TransportErrors == {"connection refused", "dns error"}

SeqsUpTo(S, n) == UNION {[1..k -> S] : k \in 0..n}

----------------------------------------------------------------------------
(* JSON documents *)

JAbsent == [j |-> "absent"]
JNull == [j |-> "null"]
JBool(b) == [j |-> "bool", b |-> b]
JStr(s) == [j |-> "string", s |-> s]
JArray(items) == [j |-> "array", items |-> items]
JObject(item) == [j |-> "object", items |-> <<item>>]

\* One record of a payload: an identifying field every payload type requires
\* and one field that all payload types but NicknameHistory declare Option.
JItems ==
    { [uuid |-> "u1", opt |-> JAbsent],
      [uuid |-> "u1", opt |-> JNull],
      [uuid |-> "u2", opt |-> JStr("t2")] }

JApiErrors ==
    { [type |-> "invalid-key", code |-> 401, message |-> "bad key"],
      [type |-> "not-found", code |-> 404, message |-> "no such player"],
      [type |-> "overflow", code |-> 65536, message |-> "big"] }

JData ==
    {JAbsent, JNull}
        \cup {JArray(s) : s \in SeqsUpTo(JItems, MaxItems)}
        \cup {JObject(i) : i \in JItems}

JErrors == {JAbsent, JNull} \cup {JArray(s) : s \in SeqsUpTo(JApiErrors, MaxErrors)}

JEnvelope(s, i, d, e) == [kind |-> "json", success |-> s, id |-> i, data |-> d, errors |-> e]

Garbage == [kind |-> "garbage"]
Unreadable == [kind |-> "unreadable"]

Bodies ==
    {Garbage, Unreadable}
        \cup { JEnvelope(s, i, d, e) :
                 s \in {JAbsent, JBool(TRUE), JBool(FALSE)},
                 i \in {JAbsent, JStr("x")},
                 d \in JData,
                 e \in JErrors }

\* The bodies two concurrent callers draw from: one of every class of outcome.
ConcBodies ==
    {Garbage}
        \cup { JEnvelope(s, JStr("x"), d, e) :
                 s \in {JBool(TRUE), JBool(FALSE)},
                 d \in { JAbsent,
                         JObject([uuid |-> "u1", opt |-> JNull]),
                         JArray(<<[uuid |-> "u2", opt |-> JStr("t2")],
                                  [uuid |-> "u1", opt |-> JNull]>>) },
                 e \in { JNull, JArray(<< >>),
                         JArray(<<[type |-> "not-found", code |-> 404, message |-> "no such player"],
                                  [type |-> "invalid-key", code |-> 401, message |-> "bad key"]>>) } }

----------------------------------------------------------------------------
(* Typed values *)

None == [some |-> FALSE, v |-> << >>]
Some(x) == [some |-> TRUE, v |-> <<x>>]

NoPayload == [ty |-> "none", items |-> << >>]
NoEnvelope == [ok |-> FALSE, error |-> "", success |-> FALSE, data |-> None, errors |-> None]
NoResponse == [ok |-> FALSE, error |-> "", body |-> Garbage]
NoResult == [kind |-> "none", payload |-> NoPayload, errors |-> << >>]

Ok(p) == [kind |-> "Ok", payload |-> p, errors |-> << >>]
Err(es) == [kind |-> "Err", payload |-> NoPayload, errors |-> es]
Panic == [kind |-> "Panic", payload |-> NoPayload, errors |-> << >>]

Ops == {"nickname_history", "player_data", "staff_tracker", "punishment_data", "key_data"}

\* The payload type T of each operation: a Vec of records or one record.
Container(o) == IF o \in {"nickname_history", "staff_tracker"} THEN "array" ELSE "object"

\* NicknameHistory declares every field plain (voided_at: String); the other
\* payload types declare the field Option<..>.
OptIsRequired(o) == o = "nickname_history"

----------------------------------------------------------------------------
(* serde: request.json::<APIData<T>>() *)

\* One record of a payload, deserialized by the derive of its struct.  A
\* plain field that is missing or null is an error; an Option field is None.
DeItem(o, it) ==
    IF it.opt.j = "string"
    THEN [ok |-> TRUE, v |-> [uuid |-> it.uuid, opt |-> Some(it.opt.s)]]
    ELSE IF OptIsRequired(o)
         THEN [ok |-> FALSE, v |-> [uuid |-> it.uuid, opt |-> None]]
         ELSE [ok |-> TRUE, v |-> [uuid |-> it.uuid, opt |-> None]]

\* data: Option<T>
DeData(o, d) ==
    IF d.j \in {"absent", "null"}
    THEN [ok |-> TRUE, v |-> None]
    ELSE IF d.j # Container(o) \/ \E i \in DOMAIN d.items : ~DeItem(o, d.items[i]).ok
         THEN [ok |-> FALSE, v |-> None]
         ELSE [ok |-> TRUE,
               v |-> Some([ty |-> IF d.j = "array" THEN "Vec" ELSE "Struct",
                           items |-> [i \in DOMAIN d.items |-> DeItem(o, d.items[i]).v]])]

\* errors: Option<Vec<APIError>>, code: u16
DeErrors(e) ==
    IF e.j \in {"absent", "null"}
    THEN [ok |-> TRUE, v |-> None]
    ELSE IF \E i \in DOMAIN e.items : e.items[i].code \notin 0..U16Max
         THEN [ok |-> FALSE, v |-> None]
         ELSE [ok |-> TRUE,
               v |-> Some([i \in DOMAIN e.items |->
                             [type |-> e.items[i].type,
                              code |-> e.items[i].code,
                              message |-> e.items[i].message]])]

DecodeError(text) == [NoEnvelope EXCEPT !.error = text]

\* The body read and deserialized as APIData<T>, T the payload type of o.
json(body, o) ==
    IF body.kind = "unreadable" THEN DecodeError("error reading response body")
    ELSE IF body.kind = "garbage" THEN DecodeError("error decoding response body: expected value")
    ELSE IF body.success.j # "bool" THEN DecodeError("error decoding response body: missing field success")
    ELSE IF body.id.j # "string" THEN DecodeError("error decoding response body: missing field id")
    ELSE IF ~DeData(o, body.data).ok THEN DecodeError("error decoding response body: invalid type")
    ELSE IF ~DeErrors(body.errors).ok THEN DecodeError("error decoding response body: invalid value")
    ELSE [ok |-> TRUE, error |-> "", success |-> body.success.b,
          data |-> DeData(o, body.data).v, errors |-> DeErrors(body.errors).v]

----------------------------------------------------------------------------
(* src/lib.rs: the conversions and the match of map_errors *)

From_APIError_internal(error) ==
    [type |-> error.type, code |-> error.code, message |-> error.message, internal |-> TRUE]

From_APIError(error) ==
    [type |-> error.type, code |-> error.code, message |-> error.message, internal |-> FALSE]

From_reqwest_Error_external(text) ==
    [type |-> "failed-api-request", code |-> 500, message |-> text, internal |-> FALSE]

From_reqwest_Error(text) ==
    [type |-> "failed-api-request", code |-> 500, message |-> text, internal |-> TRUE]

\* A match that looks at errors before it looks at success.
map_errors_match_errors_first(envelope) ==
    IF ~envelope.ok THEN Err(<<From_reqwest_Error(envelope.error)>>)
    ELSE IF envelope.errors.some
         THEN Err([i \in DOMAIN envelope.errors.v[1] |-> From_APIError(envelope.errors.v[1][i])])
         ELSE IF envelope.data.some THEN Ok(envelope.data.v[1]) ELSE Panic

\* unwrap_or_default in place of unwrap.
map_errors_match_no_unwrap(envelope) ==
    IF ~envelope.ok THEN Err(<<From_reqwest_Error(envelope.error)>>)
    ELSE IF envelope.success
         THEN IF envelope.data.some THEN Ok(envelope.data.v[1]) ELSE Ok(NoPayload)
         ELSE IF envelope.errors.some
              THEN Err([i \in DOMAIN envelope.errors.v[1] |-> From_APIError(envelope.errors.v[1][i])])
              ELSE Err(<< >>)

\* match request.json::<APIData<T>>().await { .. }
map_errors_match(envelope) ==
    IF ~envelope.ok THEN Err(<<From_reqwest_Error(envelope.error)>>)
    ELSE IF envelope.success
         THEN IF envelope.data.some THEN Ok(envelope.data.v[1]) ELSE Panic
         ELSE IF envelope.errors.some
              THEN Err([i \in DOMAIN envelope.errors.v[1] |-> From_APIError(envelope.errors.v[1][i])])
              ELSE Panic

----------------------------------------------------------------------------
(* src/main.rs: the two helpers and the match every operation repeats *)

map_internal_error(error) ==
    <<[type |-> "failed-api-request", code |-> 500, message |-> error, internal |-> TRUE]>>

\* The list built back to front.
map_external_error_reversed(errors) ==
    [i \in DOMAIN errors |->
        [type |-> errors[Len(errors) + 1 - i].type,
         code |-> errors[Len(errors) + 1 - i].code,
         message |-> errors[Len(errors) + 1 - i].message,
         internal |-> FALSE]]

map_external_error(errors) ==
    [i \in DOMAIN errors |->
        [type |-> errors[i].type, code |-> errors[i].code,
         message |-> errors[i].message, internal |-> FALSE]]

main_match(envelope) ==
    IF ~envelope.ok THEN Err(map_internal_error(envelope.error))
    ELSE IF envelope.success
         THEN IF envelope.data.some THEN Ok(envelope.data.v[1]) ELSE Panic
         ELSE IF envelope.errors.some
              THEN Err(map_external_error(envelope.errors.v[1]))
              ELSE Panic

----------------------------------------------------------------------------
(* The client and the request URLs *)

API == <<"https://hypixel.cactive.network/api/v3">>

\* Display of a bool, as format!'s {} writes it.
Display_bool(b) == IF b THEN <<"true">> ELSE <<"false">>

new(key, cache) == [key |-> key, cache |-> cache]

\* cache written before key.
nickname_history_url_swapped(self, nickname) ==
    API \o <<"/nickname-history", "?", "cache", "=">> \o Display_bool(self.cache)
        \o <<"&", "key", "=">> \o self.key
        \o <<"&", "nickname", "=">> \o nickname

\* format!("{API}/nickname-history?key={}&cache={}&nickname={nickname}", self.key, self.cache)
nickname_history_url(self, nickname) ==
    API \o <<"/nickname-history", "?", "key", "=">> \o self.key
        \o <<"&", "cache", "=">> \o Display_bool(self.cache)
        \o <<"&", "nickname", "=">> \o nickname

\* The cache flag left out.
player_data_url_no_cache(self, uuid) ==
    API \o <<"/player-data", "?", "key", "=">> \o self.key
        \o <<"&", "uuid", "=">> \o uuid

player_data_url(self, uuid) ==
    API \o <<"/player-data", "?", "key", "=">> \o self.key
        \o <<"&", "cache", "=">> \o Display_bool(self.cache)
        \o <<"&", "uuid", "=">> \o uuid

staff_tracker_url(self, filter) ==
    API \o <<"/staff-tracker", "?", "key", "=">> \o self.key
        \o <<"&", "cache", "=">> \o Display_bool(self.cache)
        \o <<"&", "filter", "=">> \o filter

punishment_data_url(self, id) ==
    API \o <<"/staff-tracker", "?", "key", "=">> \o self.key
        \o <<"&", "cache", "=">> \o Display_bool(self.cache)
        \o <<"&", "id", "=">> \o id

\* format!("{API}/key?key={key}"): the key is the argument, not self.key
key_data_url(self, key) == API \o <<"/key", "?", "key", "=">> \o key

main_nickname_history_url(self, nickname) ==
    API \o <<"/nickname-history", "?", "key", "=">> \o self.key
        \o <<"&", "cache", "=">> \o Display_bool(self.cache)
        \o <<"&", "nickname", "=">> \o nickname

main_player_data_url(self, uuid) ==
    API \o <<"/player-data", "?", "key", "=">> \o self.key
        \o <<"&", "cache", "=">> \o Display_bool(self.cache)
        \o <<"&", "uuid", "=">> \o uuid

main_staff_tracker_url(self) ==
    API \o <<"/staff-tracker", "?", "key", "=">> \o self.key
        \o <<"&", "cache", "=">> \o Display_bool(self.cache)

main_punishment_data_url(self, id) ==
    API \o <<"/staff-tracker", "?", "key", "=">> \o self.key
        \o <<"&", "cache", "=">> \o Display_bool(self.cache)
        \o <<"&", "id", "=">> \o id

main_key_data_url(self) == API \o <<"/key", "?", "key", "=">> \o self.key

----------------------------------------------------------------------------
(* The calls *)

Init ==
    /\ \E key \in Keys, cache \in BOOLEAN :
          /\ ctor = [key |-> key, cache |-> cache]
          /\ client = new(key, cache)
    /\ pc = [c \in Callers |-> "idle"]
    /\ rev = [c \in Callers |-> "lib"]
    /\ op = [c \in Callers |-> "nickname_history"]
    /\ arg = [c \in Callers |-> << >>]
    /\ url = [c \in Callers |-> << >>]
    /\ response = [c \in Callers |-> NoResponse]
    /\ decoded = [c \in Callers |-> NoEnvelope]
    /\ result = [c \in Callers |-> NoResult]
    /\ gets = [c \in Callers |-> 0]
    /\ decodes = [c \in Callers |-> 0]

\* What reqwest::get may complete with: an error, or a response with a body.
GetOutcomes(bodies) ==
    {[ok |-> FALSE, error |-> e, body |-> Garbage] : e \in TransportErrors}
        \cup {[ok |-> TRUE, error |-> "", body |-> b] : b \in bodies}

\* A call of operation o of revision r runs to its first await: the URL is
\* formatted and the GET is issued.
Issue(c, r, o, a, u) ==
    /\ pc[c] = "idle"
    /\ pc' = [pc EXCEPT ![c] = "get"]
    /\ rev' = [rev EXCEPT ![c] = r]
    /\ op' = [op EXCEPT ![c] = o]
    /\ arg' = [arg EXCEPT ![c] = a]
    /\ url' = [url EXCEPT ![c] = u]
    /\ gets' = [gets EXCEPT ![c] = @ + 1]
    /\ UNCHANGED <<client, ctor, response, decoded, result, decodes>>

\* The call returns (or panics) with value r.
Finish(c, r) ==
    /\ pc' = [pc EXCEPT ![c] = IF r.kind = "Panic" THEN "panicked" ELSE "returned"]
    /\ result' = [result EXCEPT ![c] = r]

nickname_history(c) ==
    \E nickname \in Nicknames :
        Issue(c, "lib", "nickname_history", nickname, nickname_history_url(client, nickname))

player_data(c) ==
    \E uuid \in Uuids :
        Issue(c, "lib", "player_data", uuid, player_data_url(client, uuid))

staff_tracker(c) ==
    \E filter \in Filters :
        Issue(c, "lib", "staff_tracker", filter, staff_tracker_url(client, filter))

punishment_data(c) ==
    \E id \in Ids :
        Issue(c, "lib", "punishment_data", id, punishment_data_url(client, id))

\* key_data keeping the key it is asked about.
key_data_stores_key(c) ==
    \E key \in Keys :
        /\ pc[c] = "idle"
        /\ client' = [client EXCEPT !.key = key]
        /\ pc' = [pc EXCEPT ![c] = "get"]
        /\ rev' = [rev EXCEPT ![c] = "lib"]
        /\ op' = [op EXCEPT ![c] = "key_data"]
        /\ arg' = [arg EXCEPT ![c] = key]
        /\ url' = [url EXCEPT ![c] = key_data_url(client, key)]
        /\ gets' = [gets EXCEPT ![c] = @ + 1]
        /\ UNCHANGED <<ctor, response, decoded, result, decodes>>

key_data(c) ==
    \E key \in Keys :
        Issue(c, "lib", "key_data", key, key_data_url(client, key))

\* request_data on a failed GET issuing the GET again.
request_data_retry(c, bodies) ==
    /\ pc[c] = "get"
    /\ rev[c] = "lib"
    /\ \E out \in GetOutcomes(bodies) :
          IF out.ok
          THEN /\ pc' = [pc EXCEPT ![c] = "json"]
               /\ response' = [response EXCEPT ![c] = out]
               /\ arg' = [arg EXCEPT ![c] = << >>]
               /\ url' = [url EXCEPT ![c] = << >>]
               /\ UNCHANGED <<client, ctor, rev, op, decoded, result, gets, decodes>>
          ELSE /\ gets[c] < 2
               /\ gets' = [gets EXCEPT ![c] = @ + 1]
               /\ UNCHANGED <<client, ctor, pc, rev, op, arg, url, response, decoded, result, decodes>>

\* request_data resumes from reqwest::get(url).await: an Err returns at once,
\* a response goes to map_errors, which awaits its body.
request_data(c, bodies) ==
    /\ pc[c] = "get"
    /\ rev[c] = "lib"
    /\ \E out \in GetOutcomes(bodies) :
          /\ response' = [response EXCEPT ![c] = out]
          /\ arg' = [arg EXCEPT ![c] = << >>]
          /\ url' = [url EXCEPT ![c] = << >>]
          /\ IF out.ok
             THEN /\ pc' = [pc EXCEPT ![c] = "json"]
                  /\ UNCHANGED result
             ELSE Finish(c, Err(<<From_reqwest_Error(out.error)>>))
    /\ UNCHANGED <<client, ctor, rev, op, decoded, gets, decodes>>

\* map_errors resumes from request.json::<APIData<T>>().await and matches.
map_errors(c) ==
    /\ pc[c] = "json"
    /\ rev[c] = "lib"
    /\ decoded' = [decoded EXCEPT ![c] = json(response[c].body, op[c])]
    /\ decodes' = [decodes EXCEPT ![c] = @ + 1]
    /\ Finish(c, map_errors_match(json(response[c].body, op[c])))
    /\ UNCHANGED <<client, ctor, rev, op, arg, url, response, gets>>

main_nickname_history(c) ==
    \E nickname \in Nicknames :
        Issue(c, "main", "nickname_history", nickname, main_nickname_history_url(client, nickname))

main_player_data(c) ==
    \E uuid \in Uuids :
        Issue(c, "main", "player_data", uuid, main_player_data_url(client, uuid))

main_staff_tracker(c) ==
    Issue(c, "main", "staff_tracker", << >>, main_staff_tracker_url(client))

main_punishment_data(c) ==
    \E id \in Ids :
        Issue(c, "main", "punishment_data", id, main_punishment_data_url(client, id))

main_key_data(c) ==
    Issue(c, "main", "key_data", << >>, main_key_data_url(client))

\* An operation of main.rs resumes from its reqwest::get(..).await.
main_get_returns(c, bodies) ==
    /\ pc[c] = "get"
    /\ rev[c] = "main"
    /\ \E out \in GetOutcomes(bodies) :
          /\ response' = [response EXCEPT ![c] = out]
          /\ arg' = [arg EXCEPT ![c] = << >>]
          /\ url' = [url EXCEPT ![c] = << >>]
          /\ IF out.ok
             THEN /\ pc' = [pc EXCEPT ![c] = "json"]
                  /\ UNCHANGED result
             ELSE Finish(c, Err(map_internal_error(out.error)))
    /\ UNCHANGED <<client, ctor, rev, op, decoded, gets, decodes>>

\* An operation of main.rs resumes from its request.json::<..>().await.
main_json_returns(c) ==
    /\ pc[c] = "json"
    /\ rev[c] = "main"
    /\ decoded' = [decoded EXCEPT ![c] = json(response[c].body, op[c])]
    /\ decodes' = [decodes EXCEPT ![c] = @ + 1]
    /\ Finish(c, main_match(json(response[c].body, op[c])))
    /\ UNCHANGED <<client, ctor, rev, op, arg, url, response, gets>>

\* The caller has its Result and is free to call again.
Drop(c) ==
    /\ pc[c] = "returned"
    /\ pc' = [pc EXCEPT ![c] = "idle"]
    /\ rev' = [rev EXCEPT ![c] = "lib"]
    /\ op' = [op EXCEPT ![c] = "nickname_history"]
    /\ response' = [response EXCEPT ![c] = NoResponse]
    /\ decoded' = [decoded EXCEPT ![c] = NoEnvelope]
    /\ result' = [result EXCEPT ![c] = NoResult]
    /\ gets' = [gets EXCEPT ![c] = 0]
    /\ decodes' = [decodes EXCEPT ![c] = 0]
    /\ UNCHANGED <<client, ctor, arg, url>>

Step(c, bodies) ==
    \/ nickname_history(c)
    \/ player_data(c)
    \/ staff_tracker(c)
    \/ punishment_data(c)
    \/ key_data(c)
    \/ request_data(c, bodies)
    \/ map_errors(c)
    \/ main_nickname_history(c)
    \/ main_player_data(c)
    \/ main_staff_tracker(c)
    \/ main_punishment_data(c)
    \/ main_key_data(c)
    \/ main_get_returns(c, bodies)
    \/ main_json_returns(c)
    \/ Drop(c)

\* One caller, one call at a time, every response the service may send.
Next == \E c \in SeqCallers : Step(c, Bodies)

Spec == Init /\ [][Next]_vars

\* Concurrent callers of the one client.
NextConc == \E c \in Callers : Step(c, ConcBodies)

SpecConc == Init /\ [][NextConc]_vars

----------------------------------------------------------------------------
(* Properties *)

Finished(c) == pc[c] \in {"returned", "panicked"}

Body(c) == response[c].body

\* The envelope of c's response parsed.
Parsed(c) == Finished(c) /\ response[c].ok /\ decoded[c].ok

IsNullish(f) == f.j \in {"absent", "null"}

Contains(s, sub) ==
    \E i \in 1..(Len(s) - Len(sub) + 1) : SubSeq(s, i, i + Len(sub) - 1) = sub

ParamName(o) ==
    CASE o = "nickname_history" -> "nickname"
      [] o = "player_data" -> "uuid"
      [] o = "staff_tracker" -> "filter"
      [] o = "punishment_data" -> "id"
      [] o = "key_data" -> "key"

\* C1: a parsed envelope with success=false and N >= 1 errors makes the call
\* return Err with exactly N errors, the i-th with internal=false and the
\* type, code and message of the i-th error of the body.
C1_ServerErrorsNormalized ==
    \A c \in Callers :
        (/\ Parsed(c)
         /\ Body(c).success = JBool(FALSE)
         /\ Body(c).errors.j = "array"
         /\ Len(Body(c).errors.items) >= 1)
        => /\ pc[c] = "returned"
           /\ result[c].kind = "Err"
           /\ Len(result[c].errors) = Len(Body(c).errors.items)
           /\ \A i \in 1..Len(Body(c).errors.items) :
                 result[c].errors[i] =
                     [type |-> Body(c).errors.items[i].type,
                      code |-> Body(c).errors.items[i].code,
                      message |-> Body(c).errors.items[i].message,
                      internal |-> FALSE]

C1_Witness ==
    \E c \in Callers :
        /\ Parsed(c)
        /\ Body(c).success = JBool(FALSE)
        /\ result[c].kind = "Err"
        /\ Len(result[c].errors) = 2
        /\ result[c].errors[1].type = "not-found"
        /\ result[c].errors[2].type = "invalid-key"

\* C2: a parsed envelope with success=true and data present makes the call
\* return Ok with the records of data, in their order, each with its fields
\* (a missing or null optional field is None), whatever errors holds.
C2_DataReturned ==
    \A c \in Callers :
        (/\ Parsed(c)
         /\ Body(c).success = JBool(TRUE)
         /\ ~IsNullish(Body(c).data))
        => /\ pc[c] = "returned"
           /\ result[c].kind = "Ok"
           /\ result[c].payload.ty = (IF Body(c).data.j = "array" THEN "Vec" ELSE "Struct")
           /\ Len(result[c].payload.items) = Len(Body(c).data.items)
           /\ \A i \in 1..Len(Body(c).data.items) :
                 /\ result[c].payload.items[i].uuid = Body(c).data.items[i].uuid
                 /\ IF IsNullish(Body(c).data.items[i].opt)
                    THEN ~result[c].payload.items[i].opt.some
                    ELSE result[c].payload.items[i].opt.v = <<Body(c).data.items[i].opt.s>>

C2_Witness ==
    \E c \in Callers :
        /\ Parsed(c)
        /\ Body(c).success = JBool(TRUE)
        /\ Body(c).errors.j = "array"
        /\ Len(Body(c).errors.items) = 2
        /\ result[c].kind = "Ok"
        /\ Len(result[c].payload.items) = 2
        /\ result[c].payload.items[1].uuid = "u2"
        /\ result[c].payload.items[2].uuid = "u1"
        /\ ~result[c].payload.items[2].opt.some

\* C3: a failed GET, or a body that does not parse as the envelope, makes the
\* call return Err with exactly one error, internal, 500, failed-api-request.
C3_LocalFailureOneInternalError ==
    \A c \in Callers :
        (Finished(c) /\ (~response[c].ok \/ ~decoded[c].ok))
        => /\ pc[c] = "returned"
           /\ result[c].kind = "Err"
           /\ Len(result[c].errors) = 1
           /\ result[c].errors[1].internal = TRUE
           /\ result[c].errors[1].code = 500
           /\ result[c].errors[1].type = "failed-api-request"

C3_Witness ==
    \E c \in Callers :
        /\ Finished(c)
        /\ response[c].ok
        /\ Body(c).kind = "json"
        /\ Body(c).success = JBool(FALSE)
        /\ Body(c).errors.j = "array"
        /\ ~decoded[c].ok
        /\ result[c].kind = "Err"

\* C4: a call that returns, returns Ok or an Err whose list is not empty.
C4_ErrListNonEmpty ==
    \A c \in Callers :
        pc[c] = "returned"
        => \/ result[c].kind = "Ok"
           \/ result[c].kind = "Err" /\ Len(result[c].errors) >= 1

\* C5 as claimed: the URL of each of the five operations embeds the stored
\* key, the stored cache flag and the operation's parameter.
C5_AllFiveEmbedKeyCacheParam ==
    \A c \in Callers :
        pc[c] = "get"
        => /\ Contains(url[c], <<"key", "=">> \o client.key)
           /\ Contains(url[c], <<"cache", "=">> \o Display_bool(client.cache))
           /\ arg[c] # << >> => Contains(url[c], <<ParamName(op[c]), "=">> \o arg[c])

\* C5 as amended: the URLs of nickname history, player profile, staff presence
\* and punishment embed the stored key, the stored cache flag and the
\* operation's parameter (staff presence of main.rs has none); the URL of key
\* info is /key?key=k, k the argument in lib.rs and the stored key in
\* main.rs, and holds no cache flag.
C5_FourEmbedKeyCacheParam ==
    \A c \in Callers :
        pc[c] = "get"
        => IF op[c] # "key_data"
           THEN /\ Contains(url[c], <<"key", "=">> \o client.key)
                /\ Contains(url[c], <<"cache", "=">> \o Display_bool(client.cache))
                /\ arg[c] # << >> => Contains(url[c], <<"&", ParamName(op[c]), "=">> \o arg[c])
                /\ arg[c] = << >> <=> (rev[c] = "main" /\ op[c] = "staff_tracker")
           ELSE /\ url[c] = API \o <<"/key", "?", "key", "=">>
                                \o (IF rev[c] = "lib" THEN arg[c] ELSE client.key)
                /\ \A i \in 1..Len(url[c]) : url[c][i] # "cache"

C5_Witness ==
    \E c \in Callers :
        /\ pc[c] = "get"
        /\ op[c] = "key_data"
        /\ rev[c] = "lib"
        /\ arg[c] # client.key
        /\ client.cache

\* C6: nickname history of a client built by new(K, c), asked about n, issues
\* its GET to the text API/nickname-history?key=K&cache=c&nickname=n: these
\* three parameters, in this order, K and n as given (nothing escaped).
C6_NicknameHistoryUrl ==
    \A c \in Callers :
        (pc[c] = "get" /\ op[c] = "nickname_history")
        => url[c] = <<"https://hypixel.cactive.network/api/v3", "/nickname-history",
                      "?", "key", "=">>
                        \o ctor.key
                        \o <<"&", "cache", "=", IF ctor.cache THEN "true" ELSE "false">>
                        \o <<"&", "nickname", "=">>
                        \o arg[c]

C6_Witness ==
    \E c \in Callers :
        /\ pc[c] = "get"
        /\ op[c] = "nickname_history"
        /\ ctor = [key |-> <<"K">>, cache |-> FALSE]
        /\ arg[c] = <<"angry_and_free">>
        /\ gets[c] = 1

\* C7: the client keeps the key and the flag new was given, and two calls of
\* the same operation that got the same response have the same result,
\* whatever the other callers did meanwhile.
C7_ClientReadOnly ==
    /\ client.key = ctor.key
    /\ client.cache = ctor.cache
    /\ \A c, d \in Callers :
          (/\ Finished(c) /\ Finished(d)
           /\ rev[c] = rev[d] /\ op[c] = op[d]
           /\ response[c] = response[d])
          => (pc[c] = pc[d] /\ result[c] = result[d])

C7_Witness ==
    \E c, d \in Callers :
        /\ c # d
        /\ Finished(c) /\ Finished(d)
        /\ rev[c] = "lib" /\ rev[d] = "lib"
        /\ op[c] = "key_data" /\ op[d] = "key_data"
        /\ response[c] = response[d]
        /\ result[c].kind = "Ok"

\* C8: a call issues exactly one GET and at most one decode; the decode comes
\* only after the GET returned a response; a failed GET ends the call with
\* its error list and no decode.
C8_OneGetOneDecode ==
    \A c \in Callers :
        /\ gets[c] <= 1
        /\ decodes[c] <= 1
        /\ pc[c] # "idle" => gets[c] = 1
        /\ pc[c] \in {"idle", "get", "json"} => decodes[c] = 0
        /\ decodes[c] = 1 => response[c].ok
        /\ (Finished(c) /\ ~response[c].ok)
              => (decodes[c] = 0 /\ pc[c] = "returned" /\ result[c].kind = "Err")

C8_Witness ==
    \E c \in Callers :
        /\ Finished(c)
        /\ ~response[c].ok
        /\ gets[c] = 1
        /\ decodes[c] = 0
        /\ Len(result[c].errors) = 1

\* C9: the call panics exactly when the envelope parses and has success=true
\* without data or success=false without errors.
C9_PanicIffContradiction ==
    \A c \in Callers :
        pc[c] = "panicked"
        <=> /\ Parsed(c)
            /\ \/ Body(c).success = JBool(TRUE) /\ IsNullish(Body(c).data)
               \/ Body(c).success = JBool(FALSE) /\ IsNullish(Body(c).errors)

C9_Witness ==
    \E c \in Callers :
        /\ pc[c] = "panicked"
        /\ Body(c).success = JBool(FALSE)
        /\ Body(c).errors = JAbsent
        /\ ~IsNullish(Body(c).data)

\* C10: a call of lib.rs and a call of main.rs of the same operation that
\* got the same outcome of the GET end the same way: the same payload, the
\* same error list, or a panic in both.
C10_RevisionsAgree ==
    \A c, d \in Callers :
        (/\ Finished(c) /\ Finished(d)
         /\ rev[c] = "lib" /\ rev[d] = "main"
         /\ op[c] = op[d]
         /\ response[c] = response[d])
        => (pc[c] = pc[d] /\ result[c] = result[d] /\ decoded[c] = decoded[d])

C10_Witness ==
    \E c, d \in Callers :
        /\ Finished(c) /\ Finished(d)
        /\ rev[c] = "lib" /\ rev[d] = "main"
        /\ op[c] = op[d]
        /\ response[c] = response[d]
        /\ result[c].kind = "Err"
        /\ Len(result[c].errors) = 2

====
